---- MODULE Spec2Model ----
(***************************************************************************)
(* python-formatter-thing: the statement segmenter (token_context.py), the *)
(* rule matching engine (engine.py) and the import relocation fixer        *)
(* (fixers.py).                                                            *)
(*                                                                         *)
(* A source text is a sequence of physical lines.  A line is a record      *)
(* [ind, k]: ind is the number of leading spaces, k names the text that    *)
(* follows the indentation:                                                *)
(*   blank      (empty line)          comment    # c                       *)
(*   shebang    #!/x                  coding     # coding: u               *)
(*   doc        """d"""               pass       pass                      *)
(*   impa       import a              impb       import b                  *)
(*   def        def f():              if         if x:                     *)
(*   try        try:                  except     except:                   *)
(*   else       else:                 finally    finally:                  *)
(*   while      while a if b else c:                                       *)
(*   for        for g in lambda: 0, lambda: 1:                             *)
(*   defimp     def f(): import a     ifimp      if x: import a            *)
(*   tryimp     try: import a         exceptpass except: pass              *)
(*   semi       import a; import b                                         *)
(*   open       from b import (       close      c)                        *)
(*   semiopen   import a; from b import (                                  *)
(*   closesemi  c); import a                                               *)
(* Every line ends with a line break.                                      *)
(***************************************************************************)
EXTENDS Integers, Sequences, FiniteSets, TLC

MaxLines == 4
LongLines == 5
MaxInd == 2

Layout == {"blank", "comment", "shebang", "coding"}
Cont == {"close", "closesemi"}
Opens == {"open", "semiopen"}

Text(l) == [ind |-> l.ind, k |-> l.k]

Top(st) == st[Len(st)]

Max2(a, b) == IF a >= b THEN a ELSE b

Min2(a, b) == IF a <= b THEN a ELSE b

(***************************************************************************)
(* ast.parse on the line alphabet: an indentation-driven parse.  A frame   *)
(* is one open suite: its indentation, the kind of compound clause it is   *)
(* the body of, and `last`, the clause last completed at that level        *)
(* ("try" until a handler or finally follows).                             *)
(***************************************************************************)
BaseFrame == [ind |-> 0, blk |-> "module", last |-> ""]

NextLast(last, k) ==
  CASE k \in {"except", "exceptpass"} ->
         IF last \in {"try", "except"} THEN "except" ELSE "ERR"
    [] k = "else" ->
         IF last = "except" THEN "tryelse"
         ELSE IF last \in {"if", "while", "for"} THEN "" ELSE "ERR"
    [] k = "finally" ->
         IF last \in {"try", "except", "tryelse"} THEN "" ELSE "ERR"
    [] OTHER ->
         IF last = "try" THEN "ERR"
         ELSE IF k \in {"try", "tryimp"} THEN "try"
         ELSE IF k \in {"if", "ifimp"} THEN "if"
         ELSE IF k = "while" THEN "while"
         ELSE IF k = "for" THEN "for"
         ELSE ""

PendKind(last, k) ==
  CASE k \in {"def", "try", "except", "finally", "if", "while", "for"} -> k
    [] k = "else" -> IF last = "except" THEN "tryelse" ELSE "else"
    [] k \in Opens -> "paren"
    [] OTHER -> ""

RECURSIVE Pop(_, _)
Pop(st, ind) ==
  IF Len(st) > 1 /\ Top(st).ind > ind
  THEN IF Top(st).last = "try" THEN <<>>
       ELSE Pop(SubSeq(st, 1, Len(st) - 1), ind)
  ELSE st

Blocks(st) == [j \in 1..(Len(st) - 1) |-> st[j + 1].blk]

ScanErr == [ok |-> FALSE, st |-> <<>>, pend |-> "", enc |-> <<>>]

RECURSIVE Scan(_, _, _, _, _)

\* The line l starts a statement in the suite on top of st1.
ScanStatement(L, p, l, st1, nl, enc) ==
  IF nl = "ERR" THEN ScanErr
  ELSE Scan(L, p + 1, [st1 EXCEPT ![Len(st1)].last = nl],
            PendKind(Top(st1).last, l.k), Append(enc, Blocks(st1)))

\* st1: the suites open at the line l, <<>> when its indentation fits none.
ScanIndent(L, p, l, st1, enc) ==
  IF st1 = <<>> THEN ScanErr
  ELSE IF Top(st1).ind # l.ind THEN ScanErr
  ELSE ScanStatement(L, p, l, st1, NextLast(Top(st1).last, l.k), enc)

ScanLine(L, p, l, st, pend, enc) ==
  IF pend = "paren"
  THEN IF l.k \in Cont
       THEN Scan(L, p + 1, st, "", Append(enc, enc[p - 1]))
       ELSE IF l.k \in Layout
       THEN Scan(L, p + 1, st, pend, Append(enc, enc[p - 1]))
       ELSE ScanErr
  ELSE IF l.k \in Layout THEN Scan(L, p + 1, st, pend, Append(enc, <<>>))
  ELSE IF l.k \in Cont THEN ScanErr
  ELSE ScanIndent(L, p, l,
                  IF pend # ""
                  THEN IF l.ind > Top(st).ind
                       THEN Append(st, [ind |-> l.ind, blk |-> pend, last |-> ""])
                       ELSE <<>>
                  ELSE Pop(st, l.ind),
                  enc)

Scan(L, p, st, pend, enc) ==
  IF p > Len(L) THEN [ok |-> TRUE, st |-> st, pend |-> pend, enc |-> enc]
  ELSE ScanLine(L, p, L[p], st, pend, enc)

ScanAll(L) == Scan(L, 1, <<BaseFrame>>, "", <<>>)

\* At the end of the text no suite, bracket or try clause is left open.
Complete(r) ==
  /\ r.ok
  /\ r.pend = ""
  /\ \A j \in 1..Len(r.st) : r.st[j].last # "try"

ParseOK(L) == Complete(ScanAll(L))

(***************************************************************************)
(* The syntax tree as the fixer reads it: the Import / ImportFrom nodes in *)
(* visit order, each with its lines and the counters _ImportCollector      *)
(* holds when it visits the node.                                          *)
(***************************************************************************)
Count(s, S) == Cardinality({j \in 1..Len(s) : s[j] \in S})

TryBlocks == {"try", "except", "tryelse", "finally"}

visit_FunctionDef(enc, k) ==
  Count(enc, {"def"}) + (IF k = "defimp" THEN 1 ELSE 0)

visit_Try(enc, k) ==
  Count(enc, TryBlocks) + (IF k = "tryimp" THEN 1 ELSE 0)

\* The line that closes the bracket opened on line p.
CloseOf(L, p) == CHOOSE q \in (p + 1)..Len(L) :
                   L[q].k \in Cont /\ \A j \in (p + 1)..(q - 1) : L[j].k \notin Cont

Node(p, q, enc, k) ==
  [lineno |-> p, end_lineno |-> q,
   in_function |-> visit_FunctionDef(enc, k), in_try |-> visit_Try(enc, k)]

LineNodes(L, enc, p) ==
  LET k == L[p].k
  IN CASE k \in {"impa", "impb", "defimp", "ifimp", "tryimp", "closesemi"} ->
            <<Node(p, p, enc[p], k)>>
       [] k = "semi" -> <<Node(p, p, enc[p], k), Node(p, p, enc[p], k)>>
       [] k = "open" -> <<Node(p, CloseOf(L, p), enc[p], k)>>
       [] k = "semiopen" ->
            <<Node(p, p, enc[p], k), Node(p, CloseOf(L, p), enc[p], k)>>
       [] OTHER -> <<>>

RECURSIVE ImportNodes(_, _, _)
ImportNodes(L, enc, p) ==
  IF p > Len(L) THEN <<>>
  ELSE LineNodes(L, enc, p) \o ImportNodes(L, enc, p + 1)

visit_Import(n) == n.in_function > 0 /\ n.in_try = 0

Offending(L) ==
  SelectSeq(ImportNodes(L, ScanAll(L).enc, 1), visit_Import)

\* The logical lines of the module body: physical lines that begin a
\* statement at module level.
IsCode(L, p) == L[p].k \notin Layout /\ L[p].k \notin Cont

FirstCode(L) ==
  IF \E p \in 1..Len(L) : IsCode(L, p)
  THEN CHOOSE p \in 1..Len(L) :
         IsCode(L, p) /\ \A q \in 1..(p - 1) : ~IsCode(L, q)
  ELSE 0

visit_Module(L) ==
  LET p == FirstCode(L)
  IN IF p > 0 /\ L[p].k = "doc" THEN p ELSE 0

ImportLine == {"impa", "impb", "semi", "open", "semiopen"}

EndLine(L, p) == IF L[p].k \in Opens THEN CloseOf(L, p) ELSE p

\* The end line of the leading run of top-level imports, 0 when there is none.
RECURSIVE TopImportEnd(_, _, _, _)
TopImportEnd(L, enc, p, acc) ==
  IF p > Len(L) THEN acc
  ELSE IF ~IsCode(L, p) THEN TopImportEnd(L, enc, p + 1, acc)
  ELSE IF L[p].k \in ImportLine /\ enc[p] = <<>>
       THEN TopImportEnd(L, enc, EndLine(L, p) + 1, Max2(acc, EndLine(L, p)))
       ELSE acc

top_import_end(L) ==
  LET d == visit_Module(L)
  IN TopImportEnd(L, ScanAll(L).enc, d + 1, 0)

(***************************************************************************)
(* compute_insertion_line_for_imports: the 0-based index at which new      *)
(* top-level imports go.                                                   *)
(***************************************************************************)
Blank(l) == l.k = "blank"

\* _RE_PEP263.search(line): of the alphabet only "# coding: u" holds a match.
RE_PEP263(l) == l.k = "coding"

StartsShebang(l) == l.k = "shebang" /\ l.ind = 0

RECURSIVE SkipBlank(_, _)
SkipBlank(lines, i) ==
  IF i < Len(lines) /\ Blank(lines[i + 1]) THEN SkipBlank(lines, i + 1) ELSE i

\* for j in range(i, min(i + 2, len(lines))): the last matching j wins.
EncodingScan(lines, i) ==
  IF i + 2 <= Len(lines) /\ RE_PEP263(lines[i + 2]) THEN i + 2
  ELSE IF i + 1 <= Len(lines) /\ RE_PEP263(lines[i + 1]) THEN i + 1
  ELSE i

compute_insertion_line_for_imports(lines, module_docstring_end) ==
  LET i0 == IF 0 < Len(lines) /\ StartsShebang(lines[1]) THEN 1 ELSE 0
      i1 == EncodingScan(lines, i0)
      i2 == SkipBlank(lines, i1)
  IN IF module_docstring_end > 0
     THEN SkipBlank(lines, Max2(i2, module_docstring_end))
     ELSE i2

(***************************************************************************)
(* _fix_move_imports_to_top.  Lines carry `o`, their line number in the    *)
(* source (0 for a line the fixer writes), so that what was deleted, kept  *)
(* and inserted can be told apart; the text of a line is Text(l).          *)
(***************************************************************************)
Tag(L) == [j \in 1..Len(L) |-> [o |-> j, ind |-> L[j].ind, k |-> L[j].k]]

Untag(ls) == [j \in 1..Len(ls) |-> Text(ls[j])]

\* textwrap.dedent: the leading whitespace common to the lines that are not
\* blank is removed.
Dedent(ls) ==
  LET inds == {ls[j].ind : j \in {i \in 1..Len(ls) : ~Blank(ls[i])}}
      m == CHOOSE x \in inds : \A y \in inds : x <= y
  IN [j \in 1..Len(ls) |->
        [ind |-> IF Blank(ls[j]) THEN 0 ELSE ls[j].ind - m, k |-> ls[j].k]]

\* text.strip(): leading whitespace of the first line goes too.
Strip(text) == [text EXCEPT ![1].ind = 0]

Span(L, n) ==
  [lineno |-> n.lineno, end_lineno |-> n.end_lineno,
   text |-> Dedent(SubSeq(L, n.lineno, n.end_lineno))]

Spans(L) == LET off == Offending(L) IN [j \in 1..Len(off) |-> Span(L, off[j])]

\* Moved with the dedupe flag ignored: a text already seen is always dropped.
RECURSIVE MovedAlwaysDedupe(_, _, _, _)
MovedAlwaysDedupe(spans, j, seen, dedupe) ==
  IF j > Len(spans) THEN <<>>
  ELSE IF Strip(spans[j].text) \in seen
       THEN MovedAlwaysDedupe(spans, j + 1, seen, dedupe)
       ELSE <<spans[j].text>>
              \o MovedAlwaysDedupe(spans, j + 1,
                                   seen \cup {Strip(spans[j].text)}, dedupe)

RECURSIVE Moved(_, _, _, _)
Moved(spans, j, seen, dedupe) ==
  IF j > Len(spans) THEN <<>>
  ELSE LET key == Strip(spans[j].text)
       IN IF dedupe /\ key \in seen
          THEN Moved(spans, j + 1, seen, dedupe)
          ELSE <<spans[j].text>> \o Moved(spans, j + 1, seen \cup {key}, dedupe)

\* del lines[a:b] with Python's slice clamping (a, b 0-based, b exclusive).
DelSlice(ls, a, b) ==
  SubSeq(ls, 1, Min2(a, Len(ls))) \o SubSeq(ls, Min2(b, Len(ls)) + 1, Len(ls))

RemoveOne(ls, start, end) ==
  LET d == DelSlice(ls, start - 1, end)
  IN IF start - 1 < Len(d) /\ Blank(d[start])
     THEN DelSlice(d, start - 1, start)
     ELSE d

Later(x, y) == x[1] > y[1] \/ (x[1] = y[1] /\ x[2] > y[2])

\* sorted(..., reverse=True): the pairs from the bottom of the file up.
RECURSIVE RemoveAll(_, _)
RemoveAll(ls, pairs) ==
  IF pairs = {} THEN ls
  ELSE LET x == CHOOSE x \in pairs : \A y \in pairs \ {x} : Later(x, y)
       IN RemoveAll(RemoveOne(ls, x[1], x[2]), pairs \ {x})

to_remove(spans) ==
  {<<spans[j].lineno, spans[j].end_lineno>> : j \in 1..Len(spans)}

RECURSIVE Flatten(_)
Flatten(texts) ==
  IF texts = <<>> THEN <<>> ELSE Head(texts) \o Flatten(Tail(texts))

New(text) == [j \in 1..Len(text) |-> [o |-> 0, ind |-> text[j].ind, k |-> text[j].k]]

BlankLine == [ind |-> 0, k |-> "blank"]

insert_at(L, lines) ==
  Min2(Max2(compute_insertion_line_for_imports(lines, visit_Module(L)),
            top_import_end(L)),
       Len(lines))

NoMove ==
  [err |-> FALSE, changed |-> FALSE, spans |-> <<>>, moved |-> <<>>,
   lines |-> <<>>, insert_i |-> 0, prefix |-> <<>>, suffix |-> <<>>,
   tagged |-> <<>>, out |-> <<>>]

\* The text put together: the kept lines with the block at index i.
Assemble(spans, moved, lines, i, prefix, suffix, tagged) ==
  [err |-> FALSE, changed |-> TRUE, spans |-> spans, moved |-> moved,
   lines |-> lines, insert_i |-> i, prefix |-> prefix, suffix |-> suffix,
   tagged |-> tagged, out |-> Untag(tagged)]

InsertBlock(spans, moved, lines, i, prefix, suffix) ==
  Assemble(spans, moved, lines, i, prefix, suffix,
           SubSeq(lines, 1, i) \o New(prefix \o Flatten(moved) \o suffix)
             \o SubSeq(lines, i + 1, Len(lines)))

\* A blank line goes before the block and after it where none stands.
Separate(spans, moved, lines, i) ==
  InsertBlock(spans, moved, lines, i,
              IF i > 0 /\ ~Blank(lines[i]) THEN <<BlankLine>> ELSE <<>>,
              IF i < Len(lines) /\ ~Blank(lines[i + 1])
              THEN <<BlankLine>> ELSE <<>>)

Relocate(L, spans, moved, lines) ==
  Separate(spans, moved, lines, insert_at(L, lines))

Capture(L, spans, dedupe) ==
  Relocate(L, spans, Moved(spans, 1, {}, dedupe),
           RemoveAll(Tag(L), to_remove(spans)))

fix_move_imports_to_top(L, dedupe) ==
  IF ~ParseOK(L) THEN [NoMove EXCEPT !.err = TRUE]
  ELSE IF Offending(L) = <<>>
       THEN [NoMove EXCEPT !.lines = Tag(L), !.tagged = Tag(L), !.out = L]
  ELSE Capture(L, Spans(L), dedupe)

(***************************************************************************)
(* apply_fixes.  A rule is [id, enabled, in_function, not_in_blocks,       *)
(* pattern, autofix, dedupe]; autofix is the action tag, "none" for a rule *)
(* without autofix; in_function is "none", "true" or "false".              *)
(***************************************************************************)
RECURSIVE Actions(_, _, _)
Actions(rules, j, seen_actions) ==
  IF j > Len(rules) THEN <<>>
  ELSE LET r == rules[j]
       IN IF ~r.enabled \/ r.autofix = "none" \/ r.autofix \in seen_actions
          THEN Actions(rules, j + 1, seen_actions)
          ELSE <<[action |-> r.autofix, dedupe |-> r.dedupe]>>
                 \o Actions(rules, j + 1, seen_actions \cup {r.autofix})

\* The loop over the actions; mv keeps the last relocation's working values.
RECURSIVE RunActions(_, _, _, _, _)

\* r: what the relocation returned; a SyntaxError ends the loop.
Relocation(r, actions, j, unsafe) ==
  IF r.err THEN [err |-> TRUE, out |-> <<>>, mv |-> r]
  ELSE RunActions(r.out, actions, j + 1, unsafe, r)

\* The loop with an unknown action that, under unsafe, drops the text.
RunActionsLossy(out, actions, j, unsafe, mv) ==
  IF j > Len(actions) THEN [err |-> FALSE, out |-> out, mv |-> mv]
  ELSE IF actions[j].action = "move_imports_to_top"
       THEN Relocation(fix_move_imports_to_top(out, actions[j].dedupe),
                       actions, j, unsafe)
       ELSE IF ~unsafe THEN RunActions(out, actions, j + 1, unsafe, mv)
       ELSE RunActions(<<>>, actions, j + 1, unsafe, mv)

\* An action other than the relocation is skipped when unsafe is unset and
\* has no branch of its own when it is set.
RunActions(out, actions, j, unsafe, mv) ==
  IF j > Len(actions) THEN [err |-> FALSE, out |-> out, mv |-> mv]
  ELSE IF actions[j].action = "move_imports_to_top"
       THEN Relocation(fix_move_imports_to_top(out, actions[j].dedupe),
                       actions, j, unsafe)
       ELSE IF ~unsafe THEN RunActions(out, actions, j + 1, unsafe, mv)
       ELSE RunActions(out, actions, j + 1, unsafe, mv)

apply_fixes(source, ruleset, unsafe) ==
  RunActions(source, Actions(ruleset, 1, {}), 1, unsafe,
             [NoMove EXCEPT !.lines = Tag(source), !.tagged = Tag(source),
                            !.out = source])

AtInd(kinds, inds) == {[ind |-> i, k |-> k] : i \in inds, k \in kinds}

FixAlphabet ==
  AtInd({"blank", "comment", "shebang", "coding", "doc"}, {0})
    \cup AtInd({"impa", "impb", "def", "try", "pass", "defimp", "tryimp",
                "exceptpass", "close", "semiopen"}, 0..MaxInd)

ImportPattern == "NAME:import"

PYFMT001(dedupe) ==
  [id |-> "PYFMT001", enabled |-> TRUE, in_function |-> "true",
   not_in_blocks |-> {"try", "except", "finally"}, pattern |-> ImportPattern,
   autofix |-> "move_imports_to_top", dedupe |-> dedupe]

FixRuleSets == {<<PYFMT001(TRUE)>>, <<PYFMT001(FALSE)>>}

NoResult == [err |-> FALSE, out |-> <<>>, mv |-> NoMove]

(***************************************************************************)
(* tokenize.generate_tokens on the line alphabet.  A token is              *)
(* [type, string, line, col, ecol]; every token of the alphabet starts and *)
(* ends on one line.  Words(k) lists the tokens of the text k with the     *)
(* number of spaces in front of each.                                      *)
(***************************************************************************)
Tok(type, string, line, col, ecol) ==
  [type |-> type, string |-> string, line |-> line, col |-> col, ecol |-> ecol]

NameA == <<"NAME", "a", 1>>

KwImport == <<"NAME", "import", 1>>

Colon == <<"OP", ":", 0>>

Words(k) ==
  CASE k = "blank" -> <<>>
    [] k = "comment" -> << <<"COMMENT", "# c", 0>> >>
    [] k = "shebang" -> << <<"COMMENT", "#!/x", 0>> >>
    [] k = "coding" -> << <<"COMMENT", "# coding: u", 0>> >>
    [] k = "doc" -> << <<"STRING", "\"\"\"d\"\"\"", 0>> >>
    [] k = "pass" -> << <<"NAME", "pass", 0>> >>
    [] k = "impa" -> << <<"NAME", "import", 0>>, NameA >>
    [] k = "impb" -> << <<"NAME", "import", 0>>, <<"NAME", "b", 1>> >>
    [] k = "def" -> << <<"NAME", "def", 0>>, <<"NAME", "f", 1>>,
                       <<"OP", "(", 0>>, <<"OP", ")", 0>>, Colon >>
    [] k = "if" -> << <<"NAME", "if", 0>>, <<"NAME", "x", 1>>, Colon >>
    [] k = "try" -> << <<"NAME", "try", 0>>, Colon >>
    [] k = "except" -> << <<"NAME", "except", 0>>, Colon >>
    [] k = "else" -> << <<"NAME", "else", 0>>, Colon >>
    [] k = "finally" -> << <<"NAME", "finally", 0>>, Colon >>
    [] k = "while" -> << <<"NAME", "while", 0>>, NameA, <<"NAME", "if", 1>>,
                         <<"NAME", "b", 1>>, <<"NAME", "else", 1>>,
                         <<"NAME", "c", 1>>, Colon >>
    [] k = "for" -> << <<"NAME", "for", 0>>, <<"NAME", "g", 1>>,
                       <<"NAME", "in", 1>>, <<"NAME", "lambda", 1>>, Colon,
                       <<"NUMBER", "0", 1>>, <<"OP", ",", 0>>,
                       <<"NAME", "lambda", 1>>, Colon, <<"NUMBER", "1", 1>>,
                       Colon >>
    [] k = "defimp" -> << <<"NAME", "def", 0>>, <<"NAME", "f", 1>>,
                          <<"OP", "(", 0>>, <<"OP", ")", 0>>, Colon,
                          KwImport, NameA >>
    [] k = "ifimp" -> << <<"NAME", "if", 0>>, <<"NAME", "x", 1>>, Colon,
                         KwImport, NameA >>
    [] k = "tryimp" -> << <<"NAME", "try", 0>>, Colon, KwImport, NameA >>
    [] k = "exceptpass" -> << <<"NAME", "except", 0>>, Colon,
                              <<"NAME", "pass", 1>> >>
    [] k = "semi" -> << <<"NAME", "import", 0>>, NameA, <<"OP", ";", 0>>,
                        KwImport, <<"NAME", "b", 1>> >>
    [] k = "open" -> << <<"NAME", "from", 0>>, <<"NAME", "b", 1>>, KwImport,
                        <<"OP", "(", 1>> >>
    [] k = "close" -> << <<"NAME", "c", 0>>, <<"OP", ")", 0>> >>
    [] k = "semiopen" -> << <<"NAME", "import", 0>>, NameA, <<"OP", ";", 0>>,
                            <<"NAME", "from", 1>>, <<"NAME", "b", 1>>,
                            KwImport, <<"OP", "(", 1>> >>
    [] k = "closesemi" -> << <<"NAME", "c", 0>>, <<"OP", ")", 0>>,
                             <<"OP", ";", 0>>, KwImport, NameA >>

\* The tokens of the words w from the j-th on, laid out from column c.
RECURSIVE Place(_, _, _, _)
Place(w, j, line, c) ==
  IF j > Len(w) THEN <<>>
  ELSE LET col == c + w[j][3]
           ecol == col + Len(w[j][2])
       IN <<Tok(w[j][1], w[j][2], line, col, ecol)>> \o Place(w, j + 1, line, ecol)

\* parenlev after the words: +1 for an opening bracket, -1 for a closing one.
ParenLev(lev, w) ==
  lev + Cardinality({j \in 1..Len(w) : w[j][1] = "OP" /\ w[j][2] = "("})
      - Cardinality({j \in 1..Len(w) : w[j][1] = "OP" /\ w[j][2] = ")"})

\* The tokens of one physical line without INDENT and DEDENT: its words and
\* the line break, a NEWLINE when a statement ends and an NL otherwise.
LineToks(l, line, lev) ==
  LET ws == Place(Words(l.k), 1, line, l.ind)
      c == IF ws = <<>> THEN l.ind ELSE ws[Len(ws)].ecol
      brk == IF l.k \in Layout /\ lev = 0 THEN "NL"
             ELSE IF ParenLev(lev, Words(l.k)) > 0 THEN "NL" ELSE "NEWLINE"
  IN ws \o <<Tok(brk, "", line, c, c + 1)>>

RECURSIVE Dedents(_, _, _)
Dedents(indents, col, line) ==
  IF Top(indents) > col
  THEN <<Tok("DEDENT", "", line, col, col)>>
         \o Dedents(SubSeq(indents, 1, Len(indents) - 1), col, line)
  ELSE <<>>

TokErr == [err |-> TRUE, toks |-> <<>>]

RECURSIVE TokenizeFrom(_, _, _, _, _)
TokenizeFrom(L, p, indents, lev, acc) ==
  IF p > Len(L)
  THEN IF lev # 0 THEN TokErr
       ELSE [err |-> FALSE,
             toks |-> acc \o Dedents(indents, 0, p)
                          \o <<Tok("ENDMARKER", "", p, 0, 0)>>]
  ELSE LET l == L[p]
           lev2 == ParenLev(lev, Words(l.k))
       IN IF lev # 0 \/ l.k \in Layout
          THEN TokenizeFrom(L, p + 1, indents, lev2, acc \o LineToks(l, p, lev))
          ELSE IF l.ind > Top(indents)
          THEN TokenizeFrom(L, p + 1, Append(indents, l.ind), lev2,
                            acc \o <<Tok("INDENT", "", p, 0, l.ind)>>
                                \o LineToks(l, p, lev))
          ELSE IF \A j \in 1..Len(indents) : indents[j] # l.ind
          THEN TokErr
          ELSE LET ds == Dedents(indents, l.ind, p)
               IN TokenizeFrom(L, p + 1,
                               SubSeq(indents, 1, Len(indents) - Len(ds)), lev2,
                               acc \o ds \o LineToks(l, p, lev))

generate_tokens(L) == TokenizeFrom(L, 1, <<0>>, 0, <<>>)

(***************************************************************************)
(* iter_statements: the statement segmenter with its context tracking.     *)
(***************************************************************************)
KW_SUITE ==
  {"def", "class", "try", "except", "finally", "with", "for", "while", "if",
   "elif", "else"}

None == "None"

NoTok == Tok(None, "", 0, 0, 0)

Range(s) == {s[j] : j \in 1..Len(s)}

\* The tokens flush and the last_sig update count as significant.
Significant(t) ==
  t.type \notin {"NL", "NEWLINE", "INDENT", "DEDENT", "COMMENT"}

keep_token(t) == t.type \notin {"ENCODING", "ENDMARKER"}

fmt_token(t) ==
  CASE t.type \in {"NAME", "OP"} -> t.type \o ":" \o t.string
    [] t.type = "STRING" -> "STRING:<str>"
    [] t.type = "NUMBER" -> "NUMBER:<num>"
    [] t.type \in {"NEWLINE", "NL"} -> t.type \o ":\\n"
    [] t.type = "INDENT" -> "INDENT:<indent>"
    [] t.type = "DEDENT" -> "DEDENT:<dedent>"
    [] t.type = "COMMENT" -> "COMMENT:<comment>"
    [] OTHER -> t.type \o ":" \o t.string

\* The fingerprint: the formatted tokens, which the code joins with spaces.
RECURSIVE token_string(_)
token_string(sig) ==
  IF sig = <<>> THEN <<>>
  ELSE IF keep_token(sig[1])
       THEN <<fmt_token(sig[1])>> \o token_string(Tail(sig))
       ELSE token_string(Tail(sig))

StatementContext(block_stack) ==
  [in_function |-> "def" \in Range(block_stack), block_stack |-> block_stack]

\* has_any_block with only the innermost block looked at.
has_innermost_block(context, names) ==
  context.block_stack # <<>> /\ Top(context.block_stack) \in names

has_any_block(context, names) == names \cap Range(context.block_stack) # {}

SegStart ==
  [statements |-> <<>>, buf |-> <<>>, stmt_start |-> <<1, 0>>,
   paren_depth |-> 0, block_stack |-> <<>>, seen_suite_kw |-> None,
   suite_armed |-> FALSE, last_sig |-> NoTok]

\* flush(end_tok); end_tok = NoTok is the call without an end token.
flush(s, end_tok) ==
  LET sig == SelectSeq(s.buf, Significant)
      e == IF end_tok = NoTok THEN sig[Len(sig)] ELSE end_tok
  IN IF sig = <<>> THEN [s EXCEPT !.buf = <<>>]
     ELSE [s EXCEPT
             !.buf = <<>>,
             !.statements =
               Append(@, [start_line |-> s.stmt_start[1],
                          start_col |-> s.stmt_start[2],
                          end_line |-> e.line,
                          end_col |-> e.ecol,
                          token_string |-> token_string(sig),
                          context |-> StatementContext(s.block_stack)])]

\* The body of the loop over the tokens, in the order of the code.
SegBrackets(s, t) ==
  IF t.type = "OP" /\ t.string = "(" THEN [s EXCEPT !.paren_depth = @ + 1]
  ELSE IF t.type = "OP" /\ t.string = ")"
       THEN [s EXCEPT !.paren_depth = Max2(0, @ - 1)]
       ELSE s

SegSuiteKw(s, t) ==
  LET s1 == IF t.type = "NAME" /\ t.string \in KW_SUITE /\ s.paren_depth = 0
            THEN [s EXCEPT !.seen_suite_kw = t.string, !.suite_armed = FALSE]
            ELSE s
  IN IF /\ s1.last_sig # NoTok
        /\ s1.last_sig.type = "NAME" /\ s1.last_sig.string = "async"
        /\ t.type = "NAME" /\ t.string = "def" /\ s1.paren_depth = 0
     THEN [s1 EXCEPT !.seen_suite_kw = "def", !.suite_armed = FALSE]
     ELSE s1

SegArm(s, t) ==
  IF /\ t.type = "OP" /\ t.string = ":" /\ s.paren_depth = 0
     /\ s.seen_suite_kw # None
  THEN [s EXCEPT !.suite_armed = TRUE, !.last_sig = t]
  ELSE s

SegDisarm(s, t) ==
  IF s.suite_armed /\ Significant(t) /\ ~(t.type = "OP" /\ t.string = ":")
  THEN [s EXCEPT !.suite_armed = FALSE, !.seen_suite_kw = None]
  ELSE s

SegIndent(s, t) ==
  IF t.type = "INDENT"
  THEN [s EXCEPT !.block_stack = IF s.suite_armed /\ s.seen_suite_kw # None
                                 THEN Append(@, s.seen_suite_kw) ELSE @,
                 !.seen_suite_kw = None, !.suite_armed = FALSE]
  ELSE IF t.type = "DEDENT"
  THEN [s EXCEPT !.block_stack = IF @ # <<>> THEN SubSeq(@, 1, Len(@) - 1)
                                 ELSE @,
                 !.seen_suite_kw = None, !.suite_armed = FALSE]
  ELSE s

SegBuffer(s, t) ==
  [s EXCEPT !.stmt_start = IF s.buf = <<>> THEN <<t.line, t.col>> ELSE @,
            !.buf = Append(@, t)]

SegNewline(s, t) ==
  IF t.type = "NEWLINE" /\ s.paren_depth = 0 THEN flush(s, t) ELSE s

SegLastSig(s, t) == IF Significant(t) THEN [s EXCEPT !.last_sig = t] ELSE s

SegStep(s, t) ==
  LET s1 == SegBrackets(s, t)
      s2 == SegSuiteKw(s1, t)
      s3 == SegArm(s2, t)
      s4 == SegDisarm(s3, t)
      s5 == SegIndent(s4, t)
      s6 == SegBuffer(s5, t)
      s7 == SegNewline(s6, t)
  IN SegLastSig(s7, t)

\* The loop; a state is worked out in full before the next token is taken.
RECURSIVE SegLoop(_, _, _)
SegLoop(toks, j, s) ==
  IF j > Len(toks) \/ s.paren_depth < 0 THEN s
  ELSE SegLoop(toks, j + 1, SegStep(s, toks[j]))

\* The statements of a source; err when tokenize raises.
iter_statements(source) ==
  LET tk == generate_tokens(source)
  IN IF tk.err THEN [err |-> TRUE, statements |-> <<>>]
     ELSE [err |-> FALSE,
           statements |-> flush(SegLoop(tk.toks, 1, SegStart), NoTok).statements]

(***************************************************************************)
(* check_paths.  A pattern is one of the regular expressions below;        *)
(* compile and search give what re.compile and Pattern.search give on the  *)
(* fingerprints of the alphabet.                                           *)
(***************************************************************************)
PassAtEnd == "NAME:pass$"

ImportAtStart == "^NAME:import"

AnyPattern == ""

BadPattern == "("

re_compile(pattern) == pattern # BadPattern

search(pattern, fingerprint) ==
  CASE pattern = ImportPattern -> "NAME:import" \in Range(fingerprint)
    [] pattern = ImportAtStart ->
         fingerprint # <<>> /\ fingerprint[1] = "NAME:import"
    [] pattern = PassAtEnd ->
         fingerprint # <<>> /\ fingerprint[Len(fingerprint)] = "NAME:pass"
    [] pattern = AnyPattern -> TRUE
    [] OTHER -> FALSE

\* The compile loop without the filter on enabled.
RECURSIVE CompileDisabledToo(_, _, _)
CompileDisabledToo(rules, j, compiled) ==
  IF j > Len(rules) THEN [error |-> None, compiled |-> compiled]
  ELSE IF ~re_compile(rules[j].pattern)
       THEN [error |-> rules[j].id, compiled |-> <<>>]
       ELSE CompileDisabledToo(rules, j + 1,
                               IF rules[j].enabled
                               THEN Append(compiled, rules[j]) ELSE compiled)

\* compiled: the enabled rules in ruleset order, or the first of them whose
\* pattern does not compile.
RECURSIVE Compile(_, _, _)
Compile(rules, j, compiled) ==
  IF j > Len(rules) THEN [error |-> None, compiled |-> compiled]
  ELSE IF ~rules[j].enabled THEN Compile(rules, j + 1, compiled)
  ELSE IF ~re_compile(rules[j].pattern)
       THEN [error |-> rules[j].id, compiled |-> <<>>]
       ELSE Compile(rules, j + 1, Append(compiled, rules[j]))

Violation(rule, path, st) ==
  [rule_id |-> rule.id, path |-> path, line |-> st.start_line,
   col |-> st.start_col + 1]

\* The loop over the compiled rules for one statement.
RECURSIVE MatchRules(_, _, _, _)
MatchRules(st, compiled, j, path) ==
  IF j > Len(compiled) THEN <<>>
  ELSE LET rule == compiled[j]
       IN IF \/ /\ rule.in_function # "none"
                /\ st.context.in_function # (rule.in_function = "true")
             \/ /\ rule.not_in_blocks # {}
                /\ has_any_block(st.context, rule.not_in_blocks)
             \/ ~search(rule.pattern, st.token_string)
          THEN MatchRules(st, compiled, j + 1, path)
          ELSE <<Violation(rule, path, st)>>
                 \o MatchRules(st, compiled, j + 1, path)

\* The loop over the statements of one file.
RECURSIVE MatchStatements(_, _, _, _)
MatchStatements(sts, i, compiled, path) ==
  IF i > Len(sts) THEN <<>>
  ELSE MatchRules(sts[i], compiled, 1, path)
         \o MatchStatements(sts, i + 1, compiled, path)

\* src, res, res2: one text, the result of apply_fixes on it and on that
\* result.  disk, orig: the files a run of fix_paths or check_paths works on,
\* as they are and as they were; idx: the file the run is at; stderr: the
\* files reported as skipped.  compiled, violations, files_checked: the locals
\* of check_paths; error: what a run raised.
VARIABLES src, ruleset, unsafe, pc, res, res2, disk, orig, idx, stderr,
          compiled, violations, files_checked, error

vars ==
  <<src, ruleset, unsafe, pc, res, res2, disk, orig, idx, stderr, compiled,
    violations, files_checked, error>>

NoCheck ==
  /\ compiled = <<>>
  /\ violations = <<>>
  /\ files_checked = 0
  /\ error = None

\* The sources a run starts from: the texts of at most n more lines over the
\* alphabet A that parse, each suite indented one space more than its header
\* and a shebang on the first line only.  r is the parse of s so far.
RECURSIVE Draw(_, _, _, _)
Draw(A, s, r, n) ==
  \/ Complete(r) /\ src = s
  \/ /\ n > 0
     /\ \E l \in A :
          /\ l.k = "shebang" => s = <<>>
          /\ l.k \in Cont \/ l.ind <= Len(r.st)
          /\ \E s2 \in {Append(s, l)} :
               \E r2 \in {Scan(s2, Len(s2), r.st, r.pend, r.enc)} :
                 /\ r2.ok
                 /\ \A j \in 1..Len(r2.st) : r2.st[j].ind = j - 1
                 /\ Draw(A, s2, r2, n - 1)

InitFix(n) ==
  /\ Draw(FixAlphabet, <<>>, ScanAll(<<>>), n)
  /\ ruleset \in FixRuleSets
  /\ unsafe = FALSE
  /\ pc = "start"
  /\ res = NoResult
  /\ res2 = NoResult
  /\ disk = <<>>
  /\ orig = <<>>
  /\ idx = 0
  /\ stderr = <<>>
  /\ NoCheck

\* out = apply_fixes(source, ruleset=ruleset, unsafe=unsafe)
ApplyFixes ==
  /\ pc = "start"
  /\ res' = apply_fixes(src, ruleset, unsafe)
  /\ pc' = "fixed"
  /\ UNCHANGED <<src, ruleset, unsafe, res2, disk, orig, idx, stderr>>
  /\ UNCHANGED <<compiled, violations, files_checked, error>>

\* apply_fixes on its own output
ApplyFixesAgain ==
  /\ pc = "fixed"
  /\ ~res.err
  /\ res2' = apply_fixes(res.out, ruleset, unsafe)
  /\ pc' = "refixed"
  /\ UNCHANGED <<src, ruleset, unsafe, res, disk, orig, idx, stderr>>
  /\ UNCHANGED <<compiled, violations, files_checked, error>>

NextFix == ApplyFixes \/ ApplyFixesAgain

SpecFix == InitFix(MaxLines) /\ [][NextFix]_vars

SpecFixLong == InitFix(LongLines) /\ [][NextFix]_vars

(***************************************************************************)
(* fix_paths over the files of the paths, one file for each step.  A file  *)
(* is [utf8, text]: utf8 is FALSE for a file read_text cannot decode.      *)
(***************************************************************************)
PathLines == 2
NFiles == 2

PathAlphabet ==
  AtInd({"blank", "def", "impa", "pass"}, {0}) \cup AtInd({"impa", "pass"}, {1})

Texts(A, n) == UNION {[1..m -> A] : m \in 0..n}

Files(A, n) == [utf8 : BOOLEAN, text : Texts(A, n)]

InitPaths ==
  /\ disk \in [1..NFiles -> Files(PathAlphabet, PathLines)]
  /\ orig = disk
  /\ ruleset \in FixRuleSets
  /\ unsafe \in BOOLEAN
  /\ idx = 1
  /\ stderr = <<>>
  /\ pc = "fix_paths"
  /\ src = <<>>
  /\ res = NoResult
  /\ res2 = NoResult
  /\ NoCheck

\* One iteration of the loop of fix_paths: read, fix, write back if changed.
FixFile ==
  /\ pc = "fix_paths"
  /\ idx <= Len(disk)
  /\ idx' = idx + 1
  /\ IF ~disk[idx].utf8
     THEN UNCHANGED <<disk, stderr>>
     ELSE \E out \in {apply_fixes(disk[idx].text, ruleset, unsafe)} :
            IF out.err
            THEN /\ stderr' = Append(stderr, idx)
                 /\ UNCHANGED disk
            ELSE /\ disk' = IF out.out # disk[idx].text
                            THEN [disk EXCEPT ![idx].text = out.out]
                            ELSE disk
                 /\ UNCHANGED stderr
  /\ UNCHANGED <<src, ruleset, unsafe, pc, res, res2, orig>>
  /\ UNCHANGED <<compiled, violations, files_checked, error>>

FixPathsReturn ==
  /\ pc = "fix_paths"
  /\ idx > Len(disk)
  /\ pc' = "done"
  /\ UNCHANGED <<src, ruleset, unsafe, res, res2, disk, orig, idx, stderr>>
  /\ UNCHANGED <<compiled, violations, files_checked, error>>

NextPaths == FixFile \/ FixPathsReturn

SpecPaths == InitPaths /\ [][NextPaths]_vars

\* C5: during fix_paths every file holds its original text or the whole
\* output of apply_fixes for it, a text that was written parses, and a file
\* whose source does not parse keeps its text.
C5_WrittenValidated ==
  \A f \in 1..Len(disk) :
    /\ \/ disk[f] = orig[f]
       \/ /\ ~apply_fixes(orig[f].text, ruleset, unsafe).err
          /\ disk[f].text = apply_fixes(orig[f].text, ruleset, unsafe).out
          /\ ParseOK(disk[f].text)
    /\ ~ParseOK(orig[f].text) => disk[f] = orig[f]

(***************************************************************************)
(* check_paths over one file: the rules are compiled, then the file is     *)
(* read, segmented and matched.                                            *)
(***************************************************************************)
CheckLines == 4

CheckAlphabet ==
  AtInd({"blank"}, {0})
    \cup AtInd({"comment", "impa", "pass", "def", "try", "exceptpass", "finally",
                "if", "else", "while", "for", "ifimp", "tryimp", "open",
                "close"},
               0..MaxInd)

TopPass ==
  [id |-> "TOP", enabled |-> TRUE, in_function |-> "false",
   not_in_blocks |-> {}, pattern |-> PassAtEnd, autofix |-> "none",
   dedupe |-> TRUE]

Anything ==
  [id |-> "ANY", enabled |-> TRUE, in_function |-> "none",
   not_in_blocks |-> {"def"}, pattern |-> AnyPattern, autofix |-> "none",
   dedupe |-> TRUE]

Leading ==
  [id |-> "LEAD", enabled |-> TRUE, in_function |-> "none",
   not_in_blocks |-> {"while", "else"}, pattern |-> ImportAtStart,
   autofix |-> "none", dedupe |-> TRUE]

Broken(enabled) ==
  [id |-> "BAD", enabled |-> enabled, in_function |-> "none",
   not_in_blocks |-> {}, pattern |-> BadPattern, autofix |-> "none",
   dedupe |-> TRUE]

\* A second rule whose pattern does not compile.
Unclosed == [Broken(TRUE) EXCEPT !.id = "BAD2"]

CheckRuleSets ==
  {<<PYFMT001(TRUE)>>, <<Anything, PYFMT001(TRUE), TopPass>>,
   <<Broken(FALSE), Leading, PYFMT001(TRUE)>>, <<TopPass, Broken(TRUE)>>,
   <<Broken(TRUE), PYFMT001(TRUE)>>, <<Anything, Broken(TRUE), TopPass>>,
   <<Broken(FALSE), Unclosed, Broken(TRUE)>>}

InitCheck ==
  /\ Draw(CheckAlphabet, <<>>, ScanAll(<<>>), CheckLines)
  /\ \E u \in BOOLEAN : disk = <<[utf8 |-> u, text |-> src]>>
  /\ orig = disk
  /\ ruleset \in CheckRuleSets
  /\ unsafe = FALSE
  /\ idx = 1
  /\ stderr = <<>>
  /\ pc = "check_paths"
  /\ res = NoResult
  /\ res2 = NoResult
  /\ NoCheck

\* The rules are compiled before any file is read.
CompileRules ==
  /\ pc = "check_paths"
  /\ \E c \in {Compile(ruleset, 1, <<>>)} :
       IF c.error # None
       THEN /\ pc' = "raised"
            /\ error' = c.error
            /\ UNCHANGED compiled
       ELSE /\ pc' = "files"
            /\ compiled' = c.compiled
            /\ UNCHANGED error
  /\ UNCHANGED <<src, ruleset, unsafe, res, res2, disk, orig, idx, stderr>>
  /\ UNCHANGED <<violations, files_checked>>

\* One iteration of the loop over the files.
CheckFile ==
  /\ pc = "files"
  /\ idx <= Len(disk)
  /\ idx' = idx + 1
  /\ IF ~disk[idx].utf8
     THEN UNCHANGED <<pc, violations, files_checked, error>>
     ELSE \E stmts \in {iter_statements(disk[idx].text)} :
            /\ files_checked' = files_checked + 1
            /\ IF stmts.err
               THEN /\ pc' = "raised"
                    /\ error' = "TokenError"
                    /\ UNCHANGED violations
               ELSE /\ violations' =
                         violations \o MatchStatements(stmts.statements, 1,
                                                       compiled, idx)
                    /\ UNCHANGED <<pc, error>>
  /\ UNCHANGED <<src, ruleset, unsafe, res, res2, disk, orig, stderr, compiled>>

CheckReturn ==
  /\ pc = "files"
  /\ idx > Len(disk)
  /\ pc' = "done"
  /\ UNCHANGED <<src, ruleset, unsafe, res, res2, disk, orig, idx, stderr>>
  /\ UNCHANGED <<compiled, violations, files_checked, error>>

NextCheck == CompileRules \/ CheckFile \/ CheckReturn

SpecCheck == InitCheck /\ [][NextCheck]_vars

(***************************************************************************)
(* The fix command of the CLI on one file: fix_paths, then check_paths on  *)
(* the same paths with the same ruleset.                                   *)
(***************************************************************************)
CliLines == 6

CliAlphabet ==
  AtInd({"blank"}, {0})
    \cup AtInd({"impa", "pass", "def", "try", "exceptpass", "else", "tryimp"},
               0..MaxInd)

InitCli ==
  /\ Draw(CliAlphabet, <<>>, ScanAll(<<>>), CliLines)
  /\ disk = <<[utf8 |-> TRUE, text |-> src]>>
  /\ orig = disk
  /\ ruleset \in FixRuleSets
  /\ unsafe \in BOOLEAN
  /\ idx = 1
  /\ stderr = <<>>
  /\ pc = "fix_paths"
  /\ res = NoResult
  /\ res2 = NoResult
  /\ NoCheck

\* fix_paths has returned and main calls check_paths.
CheckAfterFix ==
  /\ pc = "fix_paths"
  /\ idx > Len(disk)
  /\ pc' = "check_paths"
  /\ idx' = 1
  /\ UNCHANGED <<src, ruleset, unsafe, res, res2, disk, orig, stderr>>
  /\ UNCHANGED <<compiled, violations, files_checked, error>>

NextCli ==
  FixFile \/ CheckAfterFix \/ CompileRules \/ CheckFile \/ CheckReturn

SpecCli == InitCli /\ [][NextCli]_vars

(***************************************************************************)
(* apply_fixes under both values of unsafe, on any text, parseable or not, *)
(* with rulesets that hold rules without autofix, disabled rules and rules *)
(* whose autofix action is not the relocation.                             *)
(***************************************************************************)
UnsafeLines == 3

UnsafeAlphabet ==
  AtInd({"blank", "def", "impa", "pass"}, {0})
    \cup AtInd({"impa", "pass", "tryimp"}, {1})

Rewrite(enabled) ==
  [id |-> "REWRITE", enabled |-> enabled, in_function |-> "none",
   not_in_blocks |-> {}, pattern |-> AnyPattern, autofix |-> "rewrite_all",
   dedupe |-> TRUE]

Sort ==
  [id |-> "SORT", enabled |-> TRUE, in_function |-> "false",
   not_in_blocks |-> {}, pattern |-> ImportAtStart, autofix |-> "sort_imports",
   dedupe |-> FALSE]

Disabled(rule) == [rule EXCEPT !.enabled = FALSE]

UnsafeRuleSets ==
  {<<>>, <<Rewrite(TRUE)>>, <<TopPass, Sort>>,
   <<Rewrite(TRUE), PYFMT001(TRUE)>>, <<PYFMT001(FALSE), Sort>>,
   <<Rewrite(FALSE), PYFMT001(TRUE)>>,
   <<Sort, Disabled(PYFMT001(TRUE)), Rewrite(TRUE)>>,
   <<TopPass, Sort, PYFMT001(FALSE), Rewrite(TRUE), PYFMT001(TRUE)>>}

InitUnsafe ==
  /\ src \in Texts(UnsafeAlphabet, UnsafeLines)
  /\ ruleset \in UnsafeRuleSets
  /\ unsafe \in BOOLEAN
  /\ pc = "start"
  /\ res = NoResult
  /\ res2 = NoResult
  /\ disk = <<>>
  /\ orig = <<>>
  /\ idx = 0
  /\ stderr = <<>>
  /\ NoCheck

SpecUnsafe == InitUnsafe /\ [][NextFix]_vars

(***************************************************************************)
(* Properties of the fixer.                                                *)
(***************************************************************************)
Mv == res.mv

Fixed == pc = "fixed" /\ ~res.err

Relocated == Fixed /\ Mv.changed

Nodes(L) == ImportNodes(L, ScanAll(L).enc, 1)

LinesOf(n) == n.lineno..n.end_lineno

Guarded(n) == n.in_function > 0 /\ n.in_try > 0

Unguarded(n) == n.in_function > 0 /\ n.in_try = 0

DeindentedText(L, n) == Dedent(SubSeq(L, n.lineno, n.end_lineno))

Covered(spans) ==
  UNION {spans[j].lineno..spans[j].end_lineno : j \in 1..Len(spans)}

\* The source line numbers of the lines of the output that the fixer kept.
Origins(tagged) == {tagged[j].o : j \in 1..Len(tagged)} \ {0}

\* The number of places where the lines of T stand in L.
Occ(L, T) ==
  Cardinality({j \in 1..(Len(L) - Len(T) + 1) :
                 SubSeq(L, j, j + Len(T) - 1) = T})

\* C1: an import inside a function and inside a try statement is never
\* relocated or altered: each of its physical lines is in the output with the
\* same text and indentation, and is no part of a relocated span.
C1_TryImportsUntouched ==
  Fixed =>
    \A j \in 1..Len(Nodes(src)) :
      Guarded(Nodes(src)[j]) =>
        \A p \in LinesOf(Nodes(src)[j]) :
          /\ p \notin Covered(Mv.spans)
          /\ \E q \in 1..Len(Mv.tagged) :
               Mv.tagged[q].o = p /\ Text(Mv.tagged[q]) = src[p]

\* C2: the de-indented text of every unguarded function-nested import stands
\* exactly once at column 0 in the output, the lines of its nested occurrence
\* are gone, and the output is a module in which no import is left nested
\* in a function outside a try.
C2_RelocatedExactlyOnce ==
  Fixed =>
    \A j \in 1..Len(Nodes(src)) :
      Unguarded(Nodes(src)[j]) =>
        /\ DeindentedText(src, Nodes(src)[j])[1].ind = 0
        /\ Occ(res.out, DeindentedText(src, Nodes(src)[j])) = 1
        /\ LinesOf(Nodes(src)[j]) \cap Origins(Mv.tagged) = {}
        /\ ParseOK(res.out)
        /\ \A m \in 1..Len(Nodes(res.out)) : ~Unguarded(Nodes(res.out)[m])

\* C3: apply_fixes on its own output succeeds and returns it unchanged.
C3_Idempotent == pc = "refixed" => ~res2.err /\ res2.out = res.out

Removed == (1..Len(src)) \ Origins(Mv.tagged)

\* C4: the fixer removes exactly the lines of the captured spans and at most
\* one blank line right after each deletion site; every other line is kept,
\* unchanged and in order.
C4_OnlySpansRemoved ==
  Relocated =>
    /\ Covered(Mv.spans) \subseteq Removed
    /\ \A p \in Removed \ Covered(Mv.spans) :
         Blank(src[p]) /\ p - 1 \in Removed
    /\ Cardinality(Removed \ Covered(Mv.spans))
         <= Cardinality(to_remove(Mv.spans))
    /\ \A q \in 1..Len(Mv.tagged) :
         Mv.tagged[q].o # 0 =>
           /\ Text(Mv.tagged[q]) = src[Mv.tagged[q].o]
           /\ \A q2 \in (q + 1)..Len(Mv.tagged) :
                Mv.tagged[q2].o # 0 => Mv.tagged[q].o < Mv.tagged[q2].o

KeyCount(texts, key) ==
  Cardinality({j \in 1..Len(texts) : Strip(texts[j]) = key})

UnguardedTexts(L) ==
  LET ns == SelectSeq(Nodes(L), Unguarded)
  IN [j \in 1..Len(ns) |-> DeindentedText(L, ns[j])]

\* The dedupe flag of the relocate action: that of the first enabled rule
\* that declares it.
RelocateDedupe(rules) ==
  rules[CHOOSE j \in 1..Len(rules) :
          /\ rules[j].enabled /\ rules[j].autofix = "move_imports_to_top"
          /\ \A i \in 1..(j - 1) :
               ~(rules[i].enabled /\ rules[i].autofix = "move_imports_to_top")
       ].dedupe

\* C9: of offending imports with the same trimmed de-indented text the
\* relocated block holds one copy when dedupe is on and one copy for each of
\* them (two for two) when it is off; the block is what stands in the output
\* at the insertion point.
C9_Dedupe ==
  Relocated =>
    /\ \A i \in 1..Len(UnguardedTexts(src)) :
         \A j \in (i + 1)..Len(UnguardedTexts(src)) :
           Strip(UnguardedTexts(src)[i]) = Strip(UnguardedTexts(src)[j]) =>
             KeyCount(Mv.moved, Strip(UnguardedTexts(src)[i]))
               = IF RelocateDedupe(ruleset) THEN 1
                 ELSE KeyCount(UnguardedTexts(src), Strip(UnguardedTexts(src)[i]))
    /\ SubSeq(res.out, Mv.insert_i + Len(Mv.prefix) + 1,
              Mv.insert_i + Len(Mv.prefix) + Len(Flatten(Mv.moved)))
         = Flatten(Mv.moved)

\* Two offending imports with the same text were relocated with dedupe off.
C9_Witness ==
  /\ Relocated
  /\ ~RelocateDedupe(ruleset)
  /\ \E i \in 1..Len(UnguardedTexts(src)) :
       KeyCount(UnguardedTexts(src), Strip(UnguardedTexts(src)[i])) = 2

\* The insertion index the claim describes: past a shebang, past an encoding
\* comment on physical line 1 or 2, past blank lines, the docstring and the
\* leading run of top-level imports.
C10_Position(lines, doc_end, import_end) ==
  LET she == IF Len(lines) > 0 /\ StartsShebang(lines[1]) THEN 1 ELSE 0
      enc == IF Len(lines) > 1 /\ RE_PEP263(lines[2]) THEN 2
             ELSE IF Len(lines) > 0 /\ RE_PEP263(lines[1]) THEN 1 ELSE 0
      i2 == SkipBlank(lines, Max2(she, enc))
      i3 == IF doc_end > 0 THEN SkipBlank(lines, Max2(i2, doc_end)) ELSE i2
  IN Min2(Max2(i3, import_end), Len(lines))

\* The kept code line that follows the insertion point, 0 when there is none.
RECURSIVE NextCode(_, _)
NextCode(lines, i) ==
  IF i >= Len(lines) THEN 0
  ELSE IF lines[i + 1].k \in Layout THEN NextCode(lines, i + 1)
  ELSE i + 1

\* C10: the relocated imports are one block at module top level, placed past
\* the shebang, an encoding comment recognised on line 1 or 2 only, the
\* docstring and the leading top-level imports, which keep their place.
C10_InsertionPoint ==
  Relocated =>
    /\ Mv.insert_i
         = C10_Position(Mv.lines, visit_Module(src), top_import_end(src))
    /\ \A q \in 1..Max2(visit_Module(src), top_import_end(src)) :
         Mv.tagged[q].o = q
    /\ NextCode(Mv.lines, Mv.insert_i) # 0 =>
         /\ Mv.lines[NextCode(Mv.lines, Mv.insert_i)].ind = 0
         /\ Mv.lines[NextCode(Mv.lines, Mv.insert_i)].k \notin Cont

(***************************************************************************)
(* Properties of the checker.  They are stated on the one file of a        *)
(* check_paths run.                                                        *)
(***************************************************************************)
CheckedText == disk[1].text

Stmts ==
  IF disk[1].utf8 THEN iter_statements(CheckedText).statements ELSE <<>>

\* The (statement, rule) pairs, statement by statement and, within a
\* statement, rule by rule in ruleset order.
Pairs(sts, rules) ==
  [n \in 1..(Len(sts) * Len(rules)) |->
     [st |-> ((n - 1) \div Len(rules)) + 1,
      rule |-> ((n - 1) % Len(rules)) + 1]]

Matching(st, rule) ==
  /\ rule.enabled
  /\ \/ rule.in_function = "none"
     \/ rule.in_function = "true" /\ st.context.in_function
     \/ rule.in_function = "false" /\ ~st.context.in_function
  /\ \A tag \in rule.not_in_blocks :
       \A d \in 1..Len(st.context.block_stack) :
         st.context.block_stack[d] # tag
  /\ search(rule.pattern, st.token_string)

Hits(sts, rules) ==
  SelectSeq(Pairs(sts, rules),
            LAMBDA pair : Matching(sts[pair.st], rules[pair.rule]))

\* C6: the violations of a file are the matching (statement, rule) pairs in
\* statement order and, within a statement, ruleset order, one violation
\* for each matching pair and none for any other.
C6_ViolationSequence ==
  pc = "done" =>
    \A sts \in {Stmts} : \A hits \in {Hits(sts, ruleset)} :
      /\ Len(violations) = Len(hits)
      /\ \A n \in 1..Len(hits) :
           /\ violations[n].rule_id = ruleset[hits[n].rule].id
           /\ violations[n].line = sts[hits[n].st].start_line
           /\ violations[n].col = sts[hits[n].st].start_col + 1

\* One statement matched by two rules, and a pair whose pattern is found
\* but whose statement sits in an excluded block under another block.
C6_Witness ==
  /\ pc = "done"
  /\ \E sts \in {Stmts} : \E hits \in {Hits(sts, ruleset)} :
       /\ \E n \in 1..(Len(hits) - 1) : hits[n].st = hits[n + 1].st
       /\ \E i \in 1..Len(sts) : \E r \in 1..Len(ruleset) :
            /\ ruleset[r].enabled
            /\ search(ruleset[r].pattern, sts[i].token_string)
            /\ has_any_block(sts[i].context, ruleset[r].not_in_blocks)
            /\ Len(sts[i].context.block_stack) = 2

Tokens == generate_tokens(CheckedText).toks

\* The j-th token is the first significant token of a statement: a NEWLINE
\* stands between it and every significant token before it.
StartsStatement(toks, j) ==
  /\ Significant(toks[j])
  /\ \A i \in 1..(j - 1) :
       Significant(toks[i]) =>
         \E m \in (i + 1)..(j - 1) : toks[m].type = "NEWLINE"

\* The first significant tokens of the statements, in order.
FirstTokens(toks) ==
  SelectSeq([j \in 1..Len(toks) |-> [tok |-> toks[j], first |-> StartsStatement(toks, j)]],
            LAMBDA e : e.first)

\* C7: the line of a violation is the line of the first significant token
\* of its statement, and its col that token's start column plus 1.
C7_FirstTokenPosition ==
  pc = "done" =>
    \A sts \in {Stmts} : \A hits \in {Hits(sts, ruleset)} :
      \A firsts \in {FirstTokens(Tokens)} :
        \A n \in 1..Len(violations) :
          n <= Len(hits) =>
            /\ violations[n].line = firsts[hits[n].st].tok.line
            /\ violations[n].col = firsts[hits[n].st].tok.col + 1

Compact == {"defimp", "ifimp", "tryimp", "exceptpass"}

Headers == {"def", "if", "try", "except", "else", "finally", "while", "for"}

\* The keyword that begins a header line of kind k.
SuiteKeyword(k) == k

\* The number of the statement that begins on physical line p.
StatementOf(L, p) == Cardinality({q \in 1..p : L[q].k \notin Layout \cup Cont})

Without(L, p) == SubSeq(L, 1, p - 1) \o SubSeq(L, p + 1, Len(L))

Stack(L, i) == iter_statements(L).statements[i].context.block_stack

\* C8: a compact suite pushes nothing, so every later statement has the
\* block_stack it has in the text without that line; a header of kind K
\* followed by an indent pushes K, so the first statement of its body has
\* the header's block_stack with K appended.
C8_SuitePushes ==
  pc = "done" /\ disk[1].utf8 =>
    \A p \in 1..Len(CheckedText) :
      /\ CheckedText[p].k \in Compact =>
           /\ ~iter_statements(Without(CheckedText, p)).err
           /\ \A i \in (StatementOf(CheckedText, p) + 1)..Len(Stmts) :
                Stack(CheckedText, i) = Stack(Without(CheckedText, p), i - 1)
      /\ CheckedText[p].k \in Headers =>
           Stack(CheckedText, StatementOf(CheckedText, p) + 1)
             = Append(Stack(CheckedText, StatementOf(CheckedText, p)),
                      SuiteKeyword(CheckedText[p].k))

(***************************************************************************)
(* Properties of the compile step of check_paths.                          *)
(***************************************************************************)
\* The positions of the enabled rules whose pattern does not compile.
Uncompilable(rules) ==
  {j \in 1..Len(rules) : rules[j].enabled /\ ~re_compile(rules[j].pattern)}

Ids(rules) == {rules[j].id : j \in 1..Len(rules)}

First(S) == CHOOSE j \in S : \A m \in S : j <= m

\* C11: when an enabled rule has a pattern that does not compile, check_paths
\* raises an error naming the first such rule, at any position of the
\* ruleset, with no file read and no violation produced; a pattern that does
\* not compile on a disabled rule raises nothing.
C11_CompileErrorFirst ==
  pc # "check_paths" =>
    \A bad \in {Uncompilable(ruleset)} :
      IF bad # {}
      THEN /\ pc = "raised"
           /\ error = ruleset[First(bad)].id
           /\ idx = 1
           /\ files_checked = 0
           /\ violations = <<>>
           /\ compiled = <<>>
      ELSE /\ error \notin Ids(ruleset)
           /\ pc # "raised"

\* A run raised for the second rule of a ruleset whose first rule is
\* disabled and does not compile either.
C11_Witness ==
  /\ pc = "raised"
  /\ error = "BAD2"
  /\ ~ruleset[1].enabled
  /\ ~re_compile(ruleset[1].pattern)
  /\ disk[1].utf8
  /\ disk[1].text # <<>>

(***************************************************************************)
(* Properties of apply_fixes under unsafe.                                 *)
(***************************************************************************)
Outcome(r) == [err |-> r.err, out |-> r.out]

\* The rules whose autofix is absent or the relocation.
Known(rules) ==
  SelectSeq(rules, LAMBDA r : r.autofix \in {"none", "move_imports_to_top"})

Relocates(rules) ==
  \E j \in 1..Len(rules) :
    rules[j].enabled /\ rules[j].autofix = "move_imports_to_top"

UnknownEnabled(rules) ==
  {j \in 1..Len(rules) :
     /\ rules[j].enabled
     /\ rules[j].autofix \notin {"none", "move_imports_to_top"}}

\* C12: apply_fixes gives the same result, a text or a SyntaxError, for both
\* values of unsafe, that result is the one of the ruleset without the rules
\* of unknown actions, and without an enabled relocation rule the source is
\* returned as it is.
C12_UnknownActionsIgnored ==
  pc = "fixed" =>
    \A r \in {Outcome(res)} :
      /\ r = Outcome(apply_fixes(src, ruleset, ~unsafe))
      /\ r = Outcome(apply_fixes(src, Known(ruleset), unsafe))
      /\ ~Relocates(ruleset) => r = [err |-> FALSE, out |-> src]

\* An unsafe run whose ruleset has an enabled unknown action on each side of
\* the relocation rule, and which moved an import.
C12_Witness ==
  /\ pc = "fixed"
  /\ unsafe
  /\ ~res.err
  /\ res.out # src
  /\ \E j \in 1..Len(ruleset) :
       /\ ruleset[j].autofix = "move_imports_to_top"
       /\ \E m, n \in UnknownEnabled(ruleset) : m < j /\ j < n

(***************************************************************************)
(* Properties of the statement segmenter.                                  *)
(***************************************************************************)
\* The keyword that begins the header of a suite of kind blk.
HeaderKeyword(blk) == IF blk = "tryelse" THEN "else" ELSE blk

\* The suites whose indented bodies enclose line p, outermost first, each as
\* the keyword of its header.
Enclosing(L, p) ==
  [j \in 1..Len(ScanAll(L).enc[p]) |-> HeaderKeyword(ScanAll(L).enc[p][j])]

\* The physical lines on which a statement begins.
StatementLines(L) == {p \in 1..Len(L) : L[p].k \notin Layout \cup Cont}

\* C13: the block_stack of every statement lists the suites whose indented
\* bodies enclose it, outermost first: one entry for every indent that is
\* still open, each entry the keyword that begins the suite's header.
C13_StackIsNesting ==
  pc = "done" /\ disk[1].utf8 =>
    \A L \in {CheckedText} : \A sts \in {Stmts} :
      \A p \in StatementLines(L) :
        \A stack \in {sts[StatementOf(L, p)].context.block_stack} :
          /\ Len(stack) = L[p].ind
          /\ stack = Enclosing(L, p)

\* The last physical line of the logical line that begins on line p.
LastLine(L, p) == IF L[p].k \in Opens THEN CloseOf(L, p) ELSE p

\* The words of line p that are not comments.
Code(L, p) == SelectSeq(Words(L[p].k), LAMBDA w : w[1] # "COMMENT")

\* The significant tokens of the physical lines p..q, formatted.
RECURSIVE Fingerprint(_, _, _)
Fingerprint(L, p, q) ==
  IF p > q THEN <<>>
  ELSE [j \in 1..Len(Code(L, p)) |->
          Code(L, p)[j][1] \o ":"
            \o (IF Code(L, p)[j][1] = "NUMBER" THEN "<num>"
                ELSE Code(L, p)[j][2])]
         \o Fingerprint(L, p + 1, q)

\* C14: the statements are the logical lines that hold a significant token,
\* one statement for each and in source order, each with the fingerprint of
\* its line, and no statement has an empty fingerprint.
C14_OnePerLogicalLine ==
  pc = "done" /\ disk[1].utf8 =>
    \A L \in {CheckedText} : \A sts \in {Stmts} :
      /\ Len(sts) = Cardinality(StatementLines(L))
      /\ \A i \in 1..Len(sts) : sts[i].token_string # <<>>
      /\ \A p \in StatementLines(L) :
           /\ sts[StatementOf(L, p)].token_string
                = Fingerprint(L, p, LastLine(L, p))
           /\ sts[StatementOf(L, p)].end_line = LastLine(L, p)

(***************************************************************************)
(* Properties of the fix command.                                          *)
(***************************************************************************)
\* C15: the check that follows a fix which skipped no file reports no
\* violation of the relocation rule.
C15_CheckAfterFixClean ==
  pc = "done" /\ stderr = <<>> =>
    \A n \in 1..Len(violations) : violations[n].rule_id # "PYFMT001"

====
